---- MODULE Spec2Model ----
(***************************************************************************)
(* Test taking, result recording and progress propagation of the           *)
(* e-learning platform: the backend handlers of /test-results, /progress,  *)
(* /questions and /options over the relational store, and the desktop      *)
(* client's TestWidget (load_test, on_submit, send_result) and article     *)
(* view.  One HTTP request is in flight at a time (req); its handler runs  *)
(* as one step and leaves the response in resp.                            *)
(***************************************************************************)
EXTENDS Integers, Sequences, FiniteSets, TLC

\* ---------------------------------------------------------------- bounds
\* Number of requests sent by callers other than the desktop client.
MaxRaw == 1
\* Number of TestResult rows the model lets exist.
MaxResults == 2
\* Largest question weight an edit may set.
MaxWeight == 2

\* ------------------------------------------------------- the fixed world
None == 0

Users == {1, 2, 3}

role_name(u) == IF u = 1 THEN "admin" ELSE "student"

\* The user logged in at the desktop client.
ClientUser == 2

\* The users who send requests without the desktop client: the admin and a
\* student other than the client's.
RawActors == {1, 3}

\* The users whose results and progress the requests are about.
Students == {2, 3}

\* The actor and the user of a hand-written request about a user: the admin
\* for the client's user, a student for itself, a student for another user.
RawPairs == {<<1, 2>>, <<3, 3>>, <<3, 2>>}

\* The requests the handlers refuse before they read the rest of the request
\* are sent with one body each.
RefusedPair(actor, user_id) == role_name(actor) # "admin" /\ user_id # actor

RefusedActor(actor) == role_name(actor) # "admin"

\* Test 1 exists, in category 1, and allows one attempt; test 3 exists, in
\* category 2; test id 2 names no test.
tests == {[id |-> 1, category_id |-> 1, max_attempts |-> 1],
          [id |-> 3, category_id |-> 2, max_attempts |-> 1]}

\* The test ids a submission or a listing names.
TestIds == {1, 2}

\* The test ids GET /tests/full/{test_id} is asked for.
FullTestIds == {1, 2, 3}

\* The result ids a request names: those the table can hold and one more.
ResultIds == 1..(MaxResults + 1)

\* Articles 1 and 2 are in category 1, article 3 in category 2.
articles == {[id |-> 1, category_id |-> 1],
             [id |-> 2, category_id |-> 1],
             [id |-> 3, category_id |-> 2]}

ArticleIds == {a.id : a \in articles}

\* The articles the client's user opens on the main page: one of the test's
\* category and the one of the other category.
ViewedArticles == {1, 3}

Statuses == {"not_started", "in_progress", "done"}

\* Questions 1 and 2 are questions of test 1, question 3 of test 3.
QuestionIds == {1, 2, 3}

\* Options 1 and 2 belong to question 1, option 3 to question 2.
OptionIds == {1, 2, 3}

\* The (question_id, selected_option_id) pairs a hand-written request uses:
\* an option of the question, an option of another question of the test, and
\* a question that is not in the test.
AnswerPairs == {<<1, 1>>, <<2, 1>>, <<3, 1>>}

\* The lists of answers of a hand-written request: the handler stops at the
\* first answer it refuses, so the lists of two start with a valid answer,
\* but for one: an option of another question followed by a question that is
\* not in the test.
AnswerLists == {<<>>} \cup {<<a>> : a \in AnswerPairs}
                 \cup {<<<<1, 1>>, b>> : b \in AnswerPairs}
                 \cup {<<<<2, 1>>, <<3, 1>>>>}

\* score and max_score of a hand-written request.
RawScores == {0, 3}

RawMaxScores == {3}

VARIABLES
    questions,    \* table questions: rows [id, test_id, weight]
    options,      \* table answer_options: rows [id, question_id, is_correct]
    testResults,  \* table test_results
    testAnswers,  \* table test_answers
    progress,     \* table progress: rows [user_id, article_id, status]
    req,          \* the HTTP request in flight, or NoReq
    resp,         \* the response to the last handled request
    rawCount,     \* requests sent so far by callers other than the widgets,
                  \* and articles opened from the main window's list
    client,       \* the desktop client's TestWidget and its position
    viewing       \* the article the client's main page creates progress for

vars == <<questions, options, testResults, testAnswers, progress, req, resp,
          rawCount, client, viewing>>

db == <<questions, options, testResults, testAnswers, progress>>

NoReq == [op |-> "none"]

\* ------------------------------------------------------------ repositories
RECURSIVE SumWeights(_)
SumWeights(qs) ==
    IF qs = {} THEN 0
    ELSE LET q == CHOOSE x \in qs : TRUE IN q.weight + SumWeights(qs \ {q})

NextId(rows) ==
    IF rows = {} THEN 1
    ELSE 1 + (CHOOSE m \in {r.id : r \in rows} : \A r \in rows : r.id <= m)

GetTestById(test_id) == {t \in tests : t.id = test_id}

ListQuestionsByTest(test_id) == {q \in questions : q.test_id = test_id}

\* The listing without its WHERE clause.
ListOptionsByQuestion_AllOptions(question_id) == options

ListOptionsByQuestion(question_id) ==
    {o \in options : o.question_id = question_id}

\* The listing without its WHERE clause.
ListArticlesByCategory_AllCategories(category_id) == articles

ListArticlesByCategory(category_id) ==
    {a \in articles : a.category_id = category_id}

GetProgressByUserAndArticle(user_id, article_id) ==
    {p \in progress : p.user_id = user_id /\ p.article_id = article_id}

\* The full test: its questions, each with its options attached.
FullQuestion(q) ==
    [id |-> q.id, weight |-> q.weight,
     options |-> {[id |-> o.id, is_correct |-> o.is_correct] :
                    o \in ListOptionsByQuestion(q.id)}]

_get_test_full(test_id) == {FullQuestion(q) : q \in ListQuestionsByTest(test_id)}

\* GET /tests/full/{test_id}
get_test_full(test_id) ==
    IF GetTestById(test_id) = {}
    THEN [status |-> 404, body |-> {}]
    ELSE [status |-> 200,
          body |-> {FullQuestion(q) : q \in ListQuestionsByTest(test_id)}]

\* The insert that writes over the user's earlier result of the test, when
\* there is one.
CreateTestResult_Merged(rows, user_id, test_id, score, max_score, passed) ==
    LET earlier == {r \in rows : r.user_id = user_id /\ r.test_id = test_id}
    IN  [id |-> IF earlier = {} THEN NextId(rows)
                ELSE (CHOOSE r \in earlier : TRUE).id,
         user_id |-> user_id, test_id |-> test_id,
         score |-> score, max_score |-> max_score, passed |-> passed]

CreateTestResult(rows, user_id, test_id, score, max_score, passed) ==
    [id |-> NextId(rows), user_id |-> user_id, test_id |-> test_id,
     score |-> score, max_score |-> max_score, passed |-> passed]

\* The insert that is never committed.
CreateTestAnswer_Uncommitted(rows, test_result_id, question_id, selected_option_id) ==
    rows

CreateTestAnswer(rows, test_result_id, question_id, selected_option_id) ==
    rows \cup {[id |-> NextId(rows), test_result_id |-> test_result_id,
                question_id |-> question_id,
                selected_option_id |-> selected_option_id]}

\* ------------------------------------------------- POST /test-results/
\* The loop over payload.answers: each answer is validated and then stored;
\* the first invalid answer ends the request, what was stored stays.
valid_question_ids(full_test) == {q.id : q \in full_test}

\* The option ids of every question, whatever the question asked for.
options_by_question_AnyQuestion(full_test, question_id) ==
    UNION {{o.id : o \in q.options} : q \in full_test}

options_by_question(full_test, question_id) ==
    UNION {{o.id : o \in q.options} : q \in {x \in full_test : x.id = question_id}}

RECURSIVE StoreAnswers(_, _, _, _)
StoreAnswers(answers, result_id, full_test, rows) ==
    IF answers = <<>> THEN [status |-> 201, rows |-> rows]
    ELSE LET ans == Head(answers)
         IN  IF ans[1] \notin valid_question_ids(full_test)
             THEN [status |-> 404, rows |-> rows]
             ELSE IF ans[2] \notin options_by_question(full_test, ans[1])
             THEN [status |-> 400, rows |-> rows]
             ELSE StoreAnswers(Tail(answers), result_id, full_test,
                      CreateTestAnswer(rows, result_id, ans[1], ans[2]))

\* The handler without its check of the actor.
SubmitAllowed_AnyActor(actor, user_id) == TRUE

SubmitAllowed(actor, user_id) ==
    role_name(actor) = "admin" \/ user_id = actor

\* The handler that validates every answer before it stores anything.
create_test_result_ValidatedFirst(actor, payload) ==
    IF ~SubmitAllowed(actor, payload.user_id)
    THEN [status |-> 403, results |-> testResults, answers |-> testAnswers]
    ELSE IF GetTestById(payload.test_id) = {}
    THEN [status |-> 404, results |-> testResults, answers |-> testAnswers]
    ELSE LET result == CreateTestResult(testResults, payload.user_id,
                           payload.test_id, payload.score, payload.max_score,
                           payload.passed)
             stored == StoreAnswers(payload.answers, result.id,
                           _get_test_full(payload.test_id), testAnswers)
         IN  IF stored.status # 201
             THEN [status |-> stored.status, results |-> testResults,
                   answers |-> testAnswers]
             ELSE [status |-> 201,
                   results |-> testResults \cup {result},
                   answers |-> stored.rows]

\* What the handler leaves behind: the status and the two tables.
create_test_result(actor, payload) ==
    IF ~SubmitAllowed(actor, payload.user_id)
    THEN [status |-> 403, results |-> testResults, answers |-> testAnswers]
    ELSE IF GetTestById(payload.test_id) = {}
    THEN [status |-> 404, results |-> testResults, answers |-> testAnswers]
    ELSE LET result == CreateTestResult(testResults, payload.user_id,
                           payload.test_id, payload.score, payload.max_score,
                           payload.passed)
             stored == StoreAnswers(payload.answers, result.id,
                           _get_test_full(payload.test_id), testAnswers)
         IN  [status |-> stored.status,
              results |-> testResults \cup {result},
              answers |-> stored.rows]

\* ------------------------------------------------- GET /test-results/
\* The check passing a request that has no user_id filter.
ListAllowed_NoFilterPasses(actor, user_id) ==
    role_name(actor) = "admin" \/ user_id = actor \/ user_id = None

ListAllowed(actor, user_id) ==
    role_name(actor) = "admin" \/ user_id = actor

ListResultsByUser(user_id) == {r \in testResults : r.user_id = user_id}

ListResultsByTest(test_id) == {r \in testResults : r.test_id = test_id}

\* user_id and test_id are the query's filters, None when left out.
list_test_results(actor, user_id, test_id) ==
    IF ~ListAllowed(actor, user_id)
    THEN [status |-> 403, body |-> {}]
    ELSE IF user_id # None
    THEN [status |-> 200, body |-> ListResultsByUser(user_id)]
    ELSE IF test_id # None
    THEN [status |-> 200, body |-> ListResultsByTest(test_id)]
    ELSE [status |-> 200, body |-> testResults]

\* ------------------------------------------ GET /test-results/{result_id}
GetResultById(result_id) == {r \in testResults : r.id = result_id}

\* The owner check reads result.user_id before the result is tested for
\* None: for a non-admin the read of an absent result raises, which the
\* server reports as 500.
get_test_result(actor, result_id) ==
    LET result == GetResultById(result_id)
    IN  IF role_name(actor) # "admin" /\ result = {}
        THEN [status |-> 500, body |-> {}]
        ELSE IF role_name(actor) # "admin" /\ \E r \in result : r.user_id # actor
        THEN [status |-> 403, body |-> {}]
        ELSE IF result = {}
        THEN [status |-> 404, body |-> {}]
        ELSE [status |-> 200, body |-> result]

\* ---------------------------------- GET /test-results/{result_id}/answers
ListAnswersByResult(test_result_id) ==
    {a \in testAnswers : a.test_result_id = test_result_id}

\* An empty list of answers is reported as 404; the owner is read from the
\* result the first answer refers to.
list_result_answers(actor, result_id) ==
    LET answers == ListAnswersByResult(result_id)
    IN  IF answers = {}
        THEN [status |-> 404, body |-> {}]
        ELSE IF role_name(actor) # "admin"
                /\ \E a \in answers :
                      \E r \in GetResultById(a.test_result_id) : r.user_id # actor
        THEN [status |-> 403, body |-> {}]
        ELSE [status |-> 200, body |-> answers]

\* --------------------------------------- DELETE /test-results/{result_id}
\* The handler without its check of the role.
DeleteAllowed_AnyActor(actor) == TRUE

DeleteAllowed(actor) == role_name(actor) = "admin"

DeleteTestResult(result_id) == {r \in testResults : r.id # result_id}

\* The foreign key without ON DELETE CASCADE.
OnDeleteTestResult_NoCascade(result_id) == testAnswers

\* test_answers.test_result_id, ON DELETE CASCADE: the answers that remain
\* when the result is deleted.
OnDeleteTestResult(result_id) ==
    {a \in testAnswers : a.test_result_id # result_id}

delete_test_result(actor, result_id) ==
    IF ~DeleteAllowed(actor)
    THEN [status |-> 403, results |-> testResults, answers |-> testAnswers]
    ELSE IF GetResultById(result_id) = {}
    THEN [status |-> 404, results |-> testResults, answers |-> testAnswers]
    ELSE [status |-> 204, results |-> DeleteTestResult(result_id),
          answers |-> OnDeleteTestResult(result_id)]

\* ---------------------------------------------------------- /progress
ProgressAllowed(actor, user_id) ==
    role_name(actor) = "admin" \/ user_id = actor

\* GET /progress/ with both filters.
list_progress(actor, user_id, article_id) ==
    IF user_id # actor /\ role_name(actor) # "admin"
    THEN [status |-> 403, body |-> {}]
    ELSE [status |-> 200, body |-> GetProgressByUserAndArticle(user_id, article_id)]

\* The table without its unique constraint.
uq_progress_user_article_Dropped(user_id, article_id) == FALSE

\* UniqueConstraint("user_id", "article_id"): whether the insert of a row
\* for the pair is refused.
uq_progress_user_article(user_id, article_id) ==
    \E p \in progress : p.user_id = user_id /\ p.article_id = article_id

\* POST /progress/: the unique constraint on (user_id, article_id) makes the
\* insert of a second row fail, which the handler reports as 500.
create_progress(actor, user_id, article_id, status) ==
    IF ~ProgressAllowed(actor, user_id)
    THEN [status |-> 403, rows |-> progress]
    ELSE IF uq_progress_user_article(user_id, article_id)
    THEN [status |-> 500, rows |-> progress]
    ELSE [status |-> 201,
          rows |-> progress \cup {[user_id |-> user_id,
                                   article_id |-> article_id,
                                   status |-> status]}]

\* ProgressRepository.UpdateProgress: None when the row is absent.
UpdateProgress(user_id, article_id, status) ==
    {IF p.user_id = user_id /\ p.article_id = article_id
     THEN [p EXCEPT !.status = status] ELSE p : p \in progress}

\* The handler that reports a row it did not have to change as missing.
update_progress_NoChangeIsMissing(actor, user_id, article_id, status) ==
    IF ~ProgressAllowed(actor, user_id)
    THEN [status |-> 403, rows |-> progress]
    ELSE IF \A p \in GetProgressByUserAndArticle(user_id, article_id) :
                p.status = status
    THEN [status |-> 404, rows |-> progress]
    ELSE [status |-> 200, rows |-> UpdateProgress(user_id, article_id, status)]

\* PUT /progress/
update_progress(actor, user_id, article_id, status) ==
    IF ~ProgressAllowed(actor, user_id)
    THEN [status |-> 403, rows |-> progress]
    ELSE IF GetProgressByUserAndArticle(user_id, article_id) = {}
    THEN [status |-> 404, rows |-> progress]
    ELSE [status |-> 200, rows |-> UpdateProgress(user_id, article_id, status)]

\* ------------------------------------------- PUT /questions/, /options/
update_question(actor, question_id, weight) ==
    IF role_name(actor) # "admin"
    THEN [status |-> 403, rows |-> questions]
    ELSE IF {q \in questions : q.id = question_id} = {}
    THEN [status |-> 404, rows |-> questions]
    ELSE [status |-> 200,
          rows |-> {IF q.id = question_id THEN [q EXCEPT !.weight = weight]
                    ELSE q : q \in questions}]

update_option(actor, option_id, is_correct) ==
    IF role_name(actor) # "admin"
    THEN [status |-> 403, rows |-> options]
    ELSE IF {o \in options : o.id = option_id} = {}
    THEN [status |-> 404, rows |-> options]
    ELSE [status |-> 200,
          rows |-> {IF o.id = option_id THEN [o EXCEPT !.is_correct = is_correct]
                    ELSE o : o \in options}]

\* DELETE /options/{option_id}: test_answers.selected_option_id is a foreign
\* key with ON DELETE CASCADE, so the answers selecting the option go too.
delete_option(actor, option_id) ==
    IF role_name(actor) # "admin"
    THEN [status |-> 403, rows |-> options, answers |-> testAnswers]
    ELSE IF {o \in options : o.id = option_id} = {}
    THEN [status |-> 404, rows |-> options, answers |-> testAnswers]
    ELSE [status |-> 204,
          rows |-> {o \in options : o.id # option_id},
          answers |-> {a \in testAnswers : a.selected_option_id # option_id}]

\* ------------------------------------------------- the desktop client
\* The test the TestWidget was opened for.
ClientTest == 1

IdleClient ==
    [pc |-> "idle", questions |-> {}, max_score |-> 0,
     body |-> [user_id |-> None, test_id |-> None, score |-> 0,
               max_score |-> 0, passed |-> FALSE, answers |-> <<>>],
     todo |-> <<>>]

\* A set of ids as the list the server returns them in (by id).
RECURSIVE SortedSeq(_)
SortedSeq(ids) ==
    IF ids = {} THEN <<>>
    ELSE LET m == CHOOSE x \in ids : \A y \in ids : x <= y
         IN  <<m>> \o SortedSeq(ids \ {m})

\* A list of questions, each with its list of options, by increasing id:
\* self.questions as load_test stored it.
RECURSIVE OptionList(_)
OptionList(opts) ==
    IF opts = {} THEN <<>>
    ELSE LET m == CHOOSE x \in opts : \A y \in opts : x.id <= y.id
         IN  <<m>> \o OptionList(opts \ {m})

RECURSIVE QuestionList(_)
QuestionList(qs) ==
    IF qs = {} THEN <<>>
    ELSE LET m == CHOOSE x \in qs : \A y \in qs : x.id <= y.id
         IN  <<[id |-> m.id, weight |-> m.weight,
                options |-> OptionList(m.options)]>>
             \o QuestionList(qs \ {m})

\* on_submit: next(ans["selected_option_id"] for ans in answers if
\* ans["question_id"] == qid), -1 standing for the exhausted generator.
RECURSIVE selected_option_id(_, _)
selected_option_id(answers, qid) ==
    IF answers = <<>> THEN -1
    ELSE IF Head(answers)[1] = qid THEN Head(answers)[2]
    ELSE selected_option_id(Tail(answers), qid)

\* The loop over q["options"] that looks at the first option only.
OptionLoop_FirstOnly(opts, selected) ==
    opts # <<>> /\ Head(opts).id = selected /\ Head(opts).is_correct

\* on_submit: the loop over q["options"], left at the first option that is
\* the selected one and is flagged is_correct.
RECURSIVE OptionLoop(_, _)
OptionLoop(opts, selected) ==
    IF opts = <<>> THEN FALSE
    ELSE IF Head(opts).id = selected /\ Head(opts).is_correct THEN TRUE
    ELSE OptionLoop(Tail(opts), selected)

\* on_submit: the loop over self.questions that adds up the score.
RECURSIVE ScoreLoop(_, _)
ScoreLoop(question_list, answers) ==
    IF question_list = <<>> THEN 0
    ELSE LET q == Head(question_list)
         IN  (IF OptionLoop(q.options, selected_option_id(answers, q.id))
              THEN q.weight ELSE 0)
             + ScoreLoop(Tail(question_list), answers)

\* on_submit: the list of answers, one per loaded question.
ClientAnswers(qs, checked) ==
    LET ids == SortedSeq({q.id : q \in qs})
    IN  [i \in 1..Len(ids) |-> <<ids[i], checked[ids[i]]>>]

\* on_submit's score: the weight of every loaded question whose checked
\* option is one of its options flagged is_correct.
ClientScore(qs, checked) ==
    ScoreLoop(QuestionList(qs), ClientAnswers(qs, checked))

\* The response that never raises.
raise_for_status_Never(status) == FALSE

\* AsyncApiClient._request: a response of status 400 or more raises.
raise_for_status(status) == status >= 400

\* send_result without its test of body["passed"].
ShouldPropagate_Always(body) == TRUE

\* send_result: whether the progress of the category's articles is updated.
ShouldPropagate(body) == body.passed

Init ==
    /\ questions = {[id |-> 1, test_id |-> 1, weight |-> 2],
                    [id |-> 2, test_id |-> 1, weight |-> 1],
                    [id |-> 3, test_id |-> 3, weight |-> 1]}
    /\ options = {[id |-> 1, question_id |-> 1, is_correct |-> TRUE],
                  [id |-> 2, question_id |-> 1, is_correct |-> FALSE],
                  [id |-> 3, question_id |-> 2, is_correct |-> TRUE]}
    \* an earlier submission of user 3 with an empty list of answers
    /\ testResults = {[id |-> 1, user_id |-> 3, test_id |-> 1, score |-> 0,
                       max_score |-> 3, passed |-> FALSE]}
    /\ testAnswers = {}
    /\ progress = {}
    /\ req = NoReq
    /\ resp = [op |-> "none", origin |-> "none", status |-> 0, body |-> {}]
    /\ rawCount = 0
    /\ client = IdleClient
    /\ viewing = None

\* ------------------------------- requests of callers other than the client
\* A response reaches its caller before any other request is handled: no
\* request is sent while the client waits to read its own response.
CanSend ==
    /\ req = NoReq
    /\ client.pc \notin {"posting", "putting"}
    /\ rawCount < MaxRaw

SendCreateTestResult ==
    /\ CanSend
    /\ Cardinality(testResults) < MaxResults
    /\ \E actor \in RawActors, user_id \in Students, test_id \in TestIds,
          score \in RawScores, max_score \in RawMaxScores, passed \in BOOLEAN,
          answers \in AnswerLists :
          /\ <<actor, user_id>> \in RawPairs
          /\ score >= max_score => passed
          \* a request that is refused for its actor or for a test that does
          \* not exist is sent once, not once per grade and list of answers
          /\ (RefusedPair(actor, user_id) \/ GetTestById(test_id) = {})
             => (answers = <<>> /\ score = 0 /\ ~passed)
          /\ req' = [op |-> "create_test_result", origin |-> "raw",
                     actor |-> actor,
                     payload |-> [user_id |-> user_id, test_id |-> test_id,
                                  score |-> score, max_score |-> max_score,
                                  passed |-> passed, answers |-> answers]]
    /\ rawCount' = rawCount + 1
    /\ UNCHANGED viewing
    /\ UNCHANGED <<db, resp, client>>

SendListTestResults ==
    /\ CanSend
    /\ \E actor \in RawActors, user_id \in Students \cup {None},
          test_id \in TestIds \cup {None} :
          req' = [op |-> "list_test_results", origin |-> "raw",
                  actor |-> actor, user_id |-> user_id, test_id |-> test_id]
    /\ rawCount' = rawCount + 1
    /\ UNCHANGED viewing
    /\ UNCHANGED <<db, resp, client>>

SendGetTestFull ==
    /\ CanSend
    /\ \E actor \in RawActors, test_id \in FullTestIds :
          req' = [op |-> "get_test_full", origin |-> "raw", actor |-> actor,
                  test_id |-> test_id]
    /\ rawCount' = rawCount + 1
    /\ UNCHANGED viewing
    /\ UNCHANGED <<db, resp, client>>

SendGetTestResult ==
    /\ CanSend
    /\ \E actor \in RawActors, result_id \in ResultIds :
          req' = [op |-> "get_test_result", origin |-> "raw", actor |-> actor,
                  result_id |-> result_id]
    /\ rawCount' = rawCount + 1
    /\ UNCHANGED viewing
    /\ UNCHANGED <<db, resp, client>>

SendListResultAnswers ==
    /\ CanSend
    /\ \E actor \in RawActors, result_id \in ResultIds :
          req' = [op |-> "list_result_answers", origin |-> "raw",
                  actor |-> actor, result_id |-> result_id]
    /\ rawCount' = rawCount + 1
    /\ UNCHANGED viewing
    /\ UNCHANGED <<db, resp, client>>

SendDeleteTestResult ==
    /\ CanSend
    /\ \E actor \in RawActors, result_id \in ResultIds :
          req' = [op |-> "delete_test_result", origin |-> "raw",
                  actor |-> actor, result_id |-> result_id]
    /\ rawCount' = rawCount + 1
    /\ UNCHANGED viewing
    /\ UNCHANGED <<db, resp, client>>

SendCreateProgress ==
    /\ CanSend
    /\ \E actor \in RawActors, user_id \in Students, article_id \in ArticleIds,
          status \in Statuses :
          /\ <<actor, user_id>> \in RawPairs
          /\ RefusedPair(actor, user_id) => (article_id = 1 /\ status = "done")
          /\ req' = [op |-> "create_progress", origin |-> "raw", actor |-> actor,
                     user_id |-> user_id, article_id |-> article_id,
                     status |-> status]
    /\ rawCount' = rawCount + 1
    /\ UNCHANGED viewing
    /\ UNCHANGED <<db, resp, client>>

SendUpdateProgress ==
    /\ CanSend
    /\ \E actor \in RawActors, user_id \in Students, article_id \in ArticleIds,
          status \in Statuses :
          /\ <<actor, user_id>> \in RawPairs
          /\ RefusedPair(actor, user_id) => (article_id = 1 /\ status = "done")
          /\ req' = [op |-> "update_progress", origin |-> "raw", actor |-> actor,
                     user_id |-> user_id, article_id |-> article_id,
                     status |-> status]
    /\ rawCount' = rawCount + 1
    /\ UNCHANGED viewing
    /\ UNCHANGED <<db, resp, client>>

SendUpdateQuestion ==
    /\ CanSend
    /\ \E actor \in RawActors, question_id \in QuestionIds, weight \in 1..MaxWeight :
          /\ RefusedActor(actor) => (question_id = 1 /\ weight = 1)
          /\ req' = [op |-> "update_question", origin |-> "raw", actor |-> actor,
                     question_id |-> question_id, weight |-> weight]
    /\ rawCount' = rawCount + 1
    /\ UNCHANGED viewing
    /\ UNCHANGED <<db, resp, client>>

SendUpdateOption ==
    /\ CanSend
    /\ \E actor \in RawActors, option_id \in OptionIds, is_correct \in BOOLEAN :
          /\ RefusedActor(actor) => (option_id = 1 /\ is_correct)
          /\ req' = [op |-> "update_option", origin |-> "raw", actor |-> actor,
                     option_id |-> option_id, is_correct |-> is_correct]
    /\ rawCount' = rawCount + 1
    /\ UNCHANGED viewing
    /\ UNCHANGED <<db, resp, client>>

SendDeleteOption ==
    /\ CanSend
    /\ \E actor \in RawActors, option_id \in OptionIds :
          /\ RefusedActor(actor) => option_id = 1
          /\ req' = [op |-> "delete_option", origin |-> "raw", actor |-> actor,
                     option_id |-> option_id]
    /\ rawCount' = rawCount + 1
    /\ UNCHANGED viewing
    /\ UNCHANGED <<db, resp, client>>

\* ------------------------------------------------------------- handlers
HandleCreateTestResult ==
    /\ req.op = "create_test_result"
    /\ LET out == create_test_result(req.actor, req.payload)
       IN  /\ testResults' = out.results
           /\ testAnswers' = out.answers
           /\ resp' = [op |-> req.op, origin |-> req.origin, status |-> out.status,
                       body |-> IF out.status = 201
                                THEN out.results \ testResults ELSE {}]
    /\ req' = NoReq
    /\ UNCHANGED viewing
    /\ UNCHANGED <<questions, options, progress, rawCount, client>>

HandleListTestResults ==
    /\ req.op = "list_test_results"
    /\ LET out == list_test_results(req.actor, req.user_id, req.test_id)
       IN  resp' = [op |-> req.op, origin |-> req.origin, status |-> out.status, body |-> out.body]
    /\ req' = NoReq
    /\ UNCHANGED viewing
    /\ UNCHANGED <<db, rawCount, client>>

HandleGetTestFull ==
    /\ req.op = "get_test_full"
    /\ LET out == get_test_full(req.test_id)
       IN  resp' = [op |-> req.op, origin |-> req.origin, status |-> out.status,
                    body |-> out.body]
    /\ req' = NoReq
    /\ UNCHANGED viewing
    /\ UNCHANGED <<db, rawCount, client>>

HandleGetTestResult ==
    /\ req.op = "get_test_result"
    /\ LET out == get_test_result(req.actor, req.result_id)
       IN  resp' = [op |-> req.op, origin |-> req.origin, status |-> out.status,
                    body |-> out.body]
    /\ req' = NoReq
    /\ UNCHANGED viewing
    /\ UNCHANGED <<db, rawCount, client>>

HandleListResultAnswers ==
    /\ req.op = "list_result_answers"
    /\ LET out == list_result_answers(req.actor, req.result_id)
       IN  resp' = [op |-> req.op, origin |-> req.origin, status |-> out.status,
                    body |-> out.body]
    /\ req' = NoReq
    /\ UNCHANGED viewing
    /\ UNCHANGED <<db, rawCount, client>>

HandleDeleteTestResult ==
    /\ req.op = "delete_test_result"
    /\ LET out == delete_test_result(req.actor, req.result_id)
       IN  /\ testResults' = out.results
           /\ testAnswers' = out.answers
           /\ resp' = [op |-> req.op, origin |-> req.origin,
                       status |-> out.status, body |-> {}]
    /\ req' = NoReq
    /\ UNCHANGED viewing
    /\ UNCHANGED <<questions, options, progress, rawCount, client>>

HandleCreateProgress ==
    /\ req.op = "create_progress"
    /\ LET out == create_progress(req.actor, req.user_id, req.article_id,
                                  req.status)
       IN  /\ progress' = out.rows
           /\ resp' = [op |-> req.op, origin |-> req.origin, status |-> out.status, body |-> {}]
    /\ req' = NoReq
    /\ UNCHANGED viewing
    /\ UNCHANGED <<questions, options, testResults, testAnswers, rawCount,
                   client>>

HandleUpdateProgress ==
    /\ req.op = "update_progress"
    /\ LET out == update_progress(req.actor, req.user_id, req.article_id,
                                  req.status)
       IN  /\ progress' = out.rows
           /\ resp' = [op |-> req.op, origin |-> req.origin, status |-> out.status, body |-> {}]
    /\ req' = NoReq
    /\ UNCHANGED viewing
    /\ UNCHANGED <<questions, options, testResults, testAnswers, rawCount,
                   client>>

HandleUpdateQuestion ==
    /\ req.op = "update_question"
    /\ LET out == update_question(req.actor, req.question_id, req.weight)
       IN  /\ questions' = out.rows
           /\ resp' = [op |-> req.op, origin |-> req.origin, status |-> out.status, body |-> {}]
    /\ req' = NoReq
    /\ UNCHANGED viewing
    /\ UNCHANGED <<options, testResults, testAnswers, progress, rawCount,
                   client>>

HandleUpdateOption ==
    /\ req.op = "update_option"
    /\ LET out == update_option(req.actor, req.option_id, req.is_correct)
       IN  /\ options' = out.rows
           /\ resp' = [op |-> req.op, origin |-> req.origin, status |-> out.status, body |-> {}]
    /\ req' = NoReq
    /\ UNCHANGED viewing
    /\ UNCHANGED <<questions, testResults, testAnswers, progress, rawCount,
                   client>>

HandleDeleteOption ==
    /\ req.op = "delete_option"
    /\ LET out == delete_option(req.actor, req.option_id)
       IN  /\ options' = out.rows
           /\ testAnswers' = out.answers
           /\ resp' = [op |-> req.op, origin |-> req.origin,
                       status |-> out.status, body |-> {}]
    /\ req' = NoReq
    /\ UNCHANGED viewing
    /\ UNCHANGED <<questions, testResults, progress, rawCount, client>>

\* ------------------------------------------------- desktop client steps
\* MainPageWidget.load_article up to the answer of GET /progress/: when no
\* row is listed for (me, article), the article's row is to be created.
load_article ==
    /\ req = NoReq
    /\ viewing = None
    /\ client.pc \in {"idle", "propagating"}
    /\ \E article_id \in ViewedArticles :
          viewing' =
              IF list_progress(ClientUser, ClientUser, article_id).body = {}
              THEN article_id ELSE None
    /\ UNCHANGED <<db, req, resp, rawCount, client>>

\* MainPageWidget.load_article and MainWindow.load_article, the POST
\* /progress/ with in_progress; its answer is not looked at, a status of 400
\* or more raises in the slot.  The coroutine sends it as soon as the GET has
\* returned, so the client takes no other step in between; the server may
\* handle requests of other callers.
load_article_create ==
    /\ req = NoReq
    /\ viewing # None
    /\ client.pc \notin {"posting", "putting"}
    /\ req' = [op |-> "create_progress", origin |-> "viewer",
               actor |-> ClientUser, user_id |-> ClientUser,
               article_id |-> viewing, status |-> "in_progress"]
    /\ viewing' = None
    /\ UNCHANGED <<db, resp, rawCount, client>>

\* MainWindow.load_article up to the answer of GET /auth/me: the article is
\* shown and its row is to be created, whether or not the user has a row for
\* it; the progress of the user is not listed.  The POST /progress/ that
\* follows is the one of load_article_create.  An article opened from the
\* window's list counts among the requests bounded by MaxRaw.
MainWindow_load_article ==
    /\ req = NoReq
    /\ viewing = None
    /\ client.pc \in {"idle", "propagating"}
    /\ rawCount < MaxRaw
    /\ \E article_id \in ViewedArticles : viewing' = article_id
    /\ rawCount' = rawCount + 1
    /\ UNCHANGED <<db, req, resp, client>>

\* TestWidget.load_test: GET /tests/full/{test_id}.
load_test ==
    /\ req = NoReq
    /\ viewing = None
    /\ client.pc = "idle"
    /\ get_test_full(ClientTest).status = 200
    /\ client' = [IdleClient EXCEPT
                    !.pc = "loaded",
                    !.questions = get_test_full(ClientTest).body,
                    !.max_score = SumWeights(get_test_full(ClientTest).body)]
    /\ UNCHANGED viewing
    /\ UNCHANGED <<db, req, resp, rawCount>>

\* TestWidget.on_submit: checked[q] is the checked option of question q, -1
\* when none is; the body is posted when every question has one.
on_submit ==
    /\ req = NoReq
    /\ viewing = None
    /\ client.pc = "loaded"
    /\ Cardinality(testResults) < MaxResults
    /\ \E checked \in [{q.id : q \in client.questions} -> OptionIds \cup {-1}] :
          /\ \A q \in client.questions :
                checked[q.id] \in {o.id : o \in q.options} \cup {-1}
          /\ IF \E q \in client.questions : checked[q.id] = -1
             THEN UNCHANGED <<client, req>>
             ELSE LET score == ClientScore(client.questions, checked)
                      body == [user_id |-> ClientUser,
                               test_id |-> ClientTest,
                               score |-> score,
                               max_score |-> client.max_score,
                               passed |-> (score >= client.max_score),
                               answers |-> ClientAnswers(client.questions,
                                                         checked)]
                  IN  /\ client' = [client EXCEPT !.pc = "posting",
                                                  !.body = body]
                      /\ req' = [op |-> "create_test_result",
                                 origin |-> "client", actor |-> ClientUser,
                                 payload |-> body]
    /\ UNCHANGED viewing
    /\ UNCHANGED <<db, resp, rawCount>>

\* TestWidget.send_result, after POST /test-results/ returned: an error
\* leaves the widget as it was; otherwise the widget is removed from the
\* window (what remains of it is the body this call holds) and, for a passed
\* body, the articles of the test's category are listed.
send_result ==
    /\ req = NoReq
    /\ viewing = None
    /\ client.pc = "posting"
    /\ IF raise_for_status(resp.status)
       THEN client' = [client EXCEPT !.pc = "loaded"]
       ELSE IF ShouldPropagate(client.body)
       THEN LET test == CHOOSE t \in tests : t.id = client.body.test_id
            IN  client' = [client EXCEPT
                    !.pc = "propagating",
                    !.todo = SortedSeq({a.id : a \in
                                 ListArticlesByCategory(test.category_id)})]
       ELSE client' = IdleClient
    /\ UNCHANGED viewing
    /\ UNCHANGED <<db, req, resp, rawCount>>

\* The loop of send_result: PUT /progress/ for the next article.
send_result_put ==
    /\ req = NoReq
    /\ viewing = None
    /\ client.pc = "propagating"
    /\ IF client.todo = <<>>
       THEN /\ client' = IdleClient
            /\ UNCHANGED req
       ELSE /\ client' = [client EXCEPT !.pc = "putting"]
            /\ req' = [op |-> "update_progress", origin |-> "client",
                       actor |-> ClientUser,
                       user_id |-> client.body.user_id,
                       article_id |-> Head(client.todo), status |-> "done"]
    /\ UNCHANGED viewing
    /\ UNCHANGED <<db, resp, rawCount>>

\* PUT /progress/ returned: an error ends the loop.
send_result_next ==
    /\ req = NoReq
    /\ viewing = None
    /\ client.pc = "putting"
    /\ IF raise_for_status(resp.status)
       THEN client' = IdleClient
       ELSE client' = [client EXCEPT !.pc = "propagating",
                                     !.todo = Tail(client.todo)]
    /\ UNCHANGED viewing
    /\ UNCHANGED <<db, req, resp, rawCount>>

Next ==
    \/ SendCreateTestResult
    \/ SendListTestResults
    \/ SendGetTestFull
    \/ SendGetTestResult
    \/ SendListResultAnswers
    \/ SendDeleteTestResult
    \/ SendCreateProgress
    \/ SendUpdateProgress
    \/ SendUpdateQuestion
    \/ SendUpdateOption
    \/ SendDeleteOption
    \/ HandleCreateTestResult
    \/ HandleListTestResults
    \/ HandleGetTestFull
    \/ HandleGetTestResult
    \/ HandleListResultAnswers
    \/ HandleDeleteTestResult
    \/ HandleCreateProgress
    \/ HandleUpdateProgress
    \/ HandleUpdateQuestion
    \/ HandleUpdateOption
    \/ HandleDeleteOption
    \/ load_article
    \/ load_article_create
    \/ MainWindow_load_article
    \/ load_test
    \/ on_submit
    \/ send_result
    \/ send_result_put
    \/ send_result_next

Spec == Init /\ [][Next]_vars

\* ================================================================ claims
\* The step in which the handler of the request in flight runs.
Handled(op) == req.op = op /\ req' = NoReq

CategoryOfArticle(article_id) ==
    (CHOOSE a \in articles : a.id = article_id).category_id

CategoryOfTest(test_id) ==
    (CHOOSE t \in tests : t.id = test_id).category_id

\* The submitted answer selects an option of its question flagged is_correct.
SelectsCorrect(ans) ==
    \E o \in options :
        o.id = ans[2] /\ o.question_id = ans[1] /\ o.is_correct

\* The score of the answers against the test's content.
ContentScore(test_id, answers) ==
    SumWeights({q \in ListQuestionsByTest(test_id) :
                  \E i \in 1..Len(answers) :
                      answers[i][1] = q.id /\ SelectsCorrect(answers[i])})

\* C1: a POST /test-results/ in which some answer names a question that is
\* not a question of the referenced test fails with an error and adds no
\* TestResult row and no TestAnswer row.
C1_UnknownQuestionPersistsNothing ==
    [][(/\ Handled("create_test_result")
        /\ \E i \in 1..Len(req.payload.answers) :
              req.payload.answers[i][1] \notin
                  {q.id : q \in ListQuestionsByTest(req.payload.test_id)})
       => (/\ resp'.status >= 400
           /\ testResults' = testResults
           /\ testAnswers' = testAnswers)]_vars

\* C2: a POST /test-results/ (by a permitted actor, for an existing test, all
\* of whose answers name questions of the test) in which some answer selects
\* an option that is not an option of its question fails with 400 and leaves
\* the TestResult rows as they were.
C2_ForeignOptionPersistsNothing ==
    [][(/\ Handled("create_test_result")
        /\ role_name(req.actor) = "admin" \/ req.actor = req.payload.user_id
        /\ GetTestById(req.payload.test_id) # {}
        /\ \A i \in 1..Len(req.payload.answers) :
              req.payload.answers[i][1] \in
                  {q.id : q \in ListQuestionsByTest(req.payload.test_id)}
        /\ \E i \in 1..Len(req.payload.answers) :
              req.payload.answers[i][2] \notin
                  {o.id : o \in ListOptionsByQuestion(req.payload.answers[i][1])})
       => (resp'.status = 400 /\ testResults' = testResults)]_vars

\* C3: a POST /test-results/ is accepted only when the actor is admin or is
\* the submission's user_id; otherwise it is answered 403 and no TestResult,
\* TestAnswer or Progress row is created or changed.
C3_SubmitAuthorizedFirst ==
    [][Handled("create_test_result")
       => LET permitted == \/ role_name(req.actor) = "admin"
                           \/ req.actor = req.payload.user_id
          IN  /\ resp'.status = 201 => permitted
              /\ ~permitted => /\ resp'.status = 403
                               /\ testResults' = testResults
                               /\ testAnswers' = testAnswers
                               /\ progress' = progress]_vars

\* C3 witness: a submission for another user by a student was answered 403.
C3_Witness ==
    /\ resp.op = "create_test_result"
    /\ resp.origin = "raw"
    /\ resp.status = 403

\* C4: every TestResult a POST /test-results/ persists has
\* passed = (score >= max_score), and has passed = TRUE and score = max_score
\* when every submitted answer selects an option flagged is_correct.
C4_PassedIsScoreAtLeastMax ==
    [][Handled("create_test_result")
       => \A r \in testResults' \ testResults :
             /\ r.passed = (r.score >= r.max_score)
             /\ (\A i \in 1..Len(req.payload.answers) :
                    SelectsCorrect(req.payload.answers[i]))
                => (r.passed /\ r.score = r.max_score)]_vars

\* C5: every TestResult a POST /test-results/ persists has max_score equal to
\* the sum of the weights of the questions the test has at that time.
C5_MaxScoreIsSumOfWeights ==
    [][Handled("create_test_result")
       => \A r \in testResults' \ testResults :
             r.max_score = SumWeights(ListQuestionsByTest(r.test_id))]_vars

\* C6: every TestResult a POST /test-results/ persists has score equal to the
\* sum of the weights of the questions for which a submitted answer selects
\* an option flagged is_correct, each question counted once.
C6_ScoreIsSumOfCorrectWeights ==
    [][Handled("create_test_result")
       => \A r \in testResults' \ testResults :
             r.score = ContentScore(r.test_id, req.payload.answers)]_vars

\* C7: when the propagation after a passed submission of user U for test T
\* ends, every article of T's category has a Progress row of U with status
\* done.
C7_PropagationMarksEveryArticleDone ==
    [][(client.pc \in {"propagating", "putting"} /\ client'.pc = "idle")
       => \A a \in articles :
             a.category_id = CategoryOfTest(client.body.test_id)
             => \E p \in progress' :
                   /\ p.user_id = client.body.user_id
                   /\ p.article_id = a.id
                   /\ p.status = "done"]_vars

\* C8: a PUT /progress/ of the propagation for user U and test T changes no
\* Progress row of an article outside T's category and no Progress row of a
\* user other than U.
C8_PropagationFrame ==
    [][(Handled("update_progress") /\ req.origin = "client")
       => \A u \in Users, a \in ArticleIds :
             (\/ u # client.body.user_id
              \/ CategoryOfArticle(a) # CategoryOfTest(client.body.test_id))
             => {p \in progress' : p.user_id = u /\ p.article_id = a}
                  = {p \in progress : p.user_id = u /\ p.article_id = a}]_vars

\* C8 witness: the propagation has set a row to done while the table holds a
\* row of another user and a row of an article of another category.
C8_Witness ==
    /\ resp.op = "update_progress"
    /\ resp.origin = "client"
    /\ resp.status = 200
    /\ \E p \in progress : p.user_id # ClientUser
    /\ \E p \in progress :
          CategoryOfArticle(p.article_id) # CategoryOfTest(ClientTest)

\* C9: the propagation starts only after a submission whose stored result has
\* passed = TRUE; handling a submission changes no Progress row, and after a
\* stored result with passed = FALSE the client sends no PUT /progress/.
C9_PropagationOnlyWhenPassed ==
    [][/\ Handled("create_test_result") => progress' = progress
       /\ (client.pc = "posting" /\ client'.pc = "propagating")
          => (/\ resp.status = 201
              /\ resp.body # {}
              /\ \A r \in resp.body : r.passed)
       /\ (req'.op = "update_progress" /\ req'.origin = "client" /\ req = NoReq)
          => client.pc = "propagating"]_vars

\* C9 witness: the client's submission was stored with passed = FALSE, the
\* widget was closed and no Progress row exists.
C9_Witness ==
    /\ resp.op = "create_test_result"
    /\ resp.origin = "client"
    /\ resp.status = 201
    /\ \E r \in resp.body : ~r.passed
    /\ client = IdleClient
    /\ progress = {}

\* C10: GET /test-results/ by a non-admin is answered 403 when the user_id
\* filter is left out or names another user and 200 when it is the actor's
\* own id; an admin is always answered 200.
C10_ListAuthorization ==
    [][Handled("list_test_results")
       => IF role_name(req.actor) = "admin"
          THEN resp'.status = 200
          ELSE IF req.user_id = None \/ req.user_id # req.actor
          THEN resp'.status = 403
          ELSE resp'.status = 200]_vars

\* C10 witness: a listing was denied and the requests sent so far include it.
C10_Witness ==
    /\ resp.op = "list_test_results"
    /\ resp.status = 403
    /\ rawCount > 0

\* C11: GET /test-results/{id} is answered 404 whenever no result has that
\* id, whoever asks; for an existing result it returns the result to an admin
\* and to the result's owner and answers 403 to any other actor.
C11_GetResultByExistenceAndOwner ==
    [][Handled("get_test_result")
       => LET result == {r \in testResults : r.id = req.result_id}
          IN  IF result = {}
              THEN resp'.status = 404
              ELSE IF \/ role_name(req.actor) = "admin"
                      \/ \A r \in result : r.user_id = req.actor
              THEN resp'.status = 200 /\ resp'.body = result
              ELSE resp'.status = 403]_vars

\* C12: GET /test-results/{id}/answers for an existing result returns, to an
\* admin and to the result's owner, exactly the TestAnswer rows of that
\* result (the empty list when it has none), and answers 403 to any other
\* actor.
C12_AnswersOfResult ==
    [][Handled("list_result_answers")
       => LET result == {r \in testResults : r.id = req.result_id}
          IN  result # {}
              => IF \/ role_name(req.actor) = "admin"
                    \/ \A r \in result : r.user_id = req.actor
                 THEN /\ resp'.status = 200
                      /\ resp'.body = {a \in testAnswers :
                                         a.test_result_id = req.result_id}
                 ELSE resp'.status = 403]_vars

\* C13: DELETE /test-results/{id} deletes only for an admin; a request by a
\* non-admin, the result's owner included, is answered 403 and leaves the
\* TestResult and TestAnswer rows as they were.
C13_DeleteAdminOnly ==
    [][Handled("delete_test_result")
       => IF role_name(req.actor) = "admin"
          THEN resp'.status \in {204, 404}
          ELSE /\ resp'.status = 403
               /\ testResults' = testResults
               /\ testAnswers' = testAnswers]_vars

\* C13 witness: a delete was answered 403 while a result of the student who
\* sends requests exists.
C13_Witness ==
    /\ resp.op = "delete_test_result"
    /\ resp.status = 403
    /\ \E r \in testResults : r.user_id \in RawActors

\* C14: every TestAnswer's test_result_id names an existing TestResult.
C14_NoOrphanAnswers ==
    \A a \in testAnswers : \E r \in testResults : r.id = a.test_result_id

\* C14 witness: the result the client's submission stored, with its answers,
\* was deleted; the earlier result is still there.
C14_Witness ==
    /\ resp.op = "delete_test_result"
    /\ resp.status = 204
    /\ client.body.user_id = ClientUser
    /\ \E r \in testResults : r.id = 1
    /\ ~ \E r \in testResults : r.user_id = ClientUser

\* C15: the number of TestResult rows of a user for a test never exceeds the
\* test's max_attempts.
C15_AttemptsBounded ==
    \A u \in Users : \A t \in tests :
        Cardinality({r \in testResults : r.user_id = u /\ r.test_id = t.id})
            <= t.max_attempts

\* C16: every TestAnswer's selected_option_id is an option of its
\* question_id, and its question_id is a question of the test its TestResult
\* names.
C16_AnswersBelongToTest ==
    \A a \in testAnswers :
        /\ \E o \in options :
              o.id = a.selected_option_id /\ o.question_id = a.question_id
        /\ \E q \in questions : \E r \in testResults :
              /\ q.id = a.question_id
              /\ r.id = a.test_result_id
              /\ q.test_id = r.test_id

\* C16 witness: a hand-written submission stored an answer and was then
\* refused at an option that is not an option of its question.
C16_Witness ==
    /\ resp.op = "create_test_result"
    /\ resp.origin = "raw"
    /\ resp.status = 400
    /\ testAnswers # {}

\* C17: a POST /test-results/ answered 201 creates exactly one TestResult and
\* exactly one TestAnswer per submitted answer, each with that answer's
\* question and option and with the id of the new TestResult, an id no
\* TestAnswer carried before.
C17_OneResultThenItsAnswers ==
    [][(Handled("create_test_result") /\ resp'.status = 201)
       => LET newResults == testResults' \ testResults
              newAnswers == testAnswers' \ testAnswers
              submitted  == req.payload.answers
          IN  /\ Cardinality(newResults) = 1
              /\ testResults \subseteq testResults'
              /\ testAnswers \subseteq testAnswers'
              /\ Cardinality(newAnswers) = Len(submitted)
              /\ \A r \in newResults :
                    /\ \A a \in newAnswers : a.test_result_id = r.id
                    /\ \A a \in testAnswers : a.test_result_id # r.id
              /\ \A a \in newAnswers : \E i \in 1..Len(submitted) :
                    /\ a.question_id = submitted[i][1]
                    /\ a.selected_option_id = submitted[i][2]
              /\ \A i \in 1..Len(submitted) : \E a \in newAnswers :
                    /\ a.question_id = submitted[i][1]
                    /\ a.selected_option_id = submitted[i][2]]_vars

\* C17 witness: a submission was answered 201 and its result has two answers.
C17_Witness ==
    /\ resp.op = "create_test_result"
    /\ resp.status = 201
    /\ \E r \in resp.body :
          /\ r \in testResults
          /\ Cardinality({a \in testAnswers : a.test_result_id = r.id}) = 2

\* C18: the client starts the propagation only after its POST /test-results/
\* was answered 201 with the stored TestResult; after a failed POST the
\* widget stays open with no propagation, and the client sends a
\* PUT /progress/ only from within the propagation.
C18_PropagationAfterPersistence ==
    [][/\ (client.pc = "posting" /\ client'.pc # "posting")
          => /\ resp.op = "create_test_result"
             /\ resp.origin = "client"
             /\ IF resp.status = 201
                THEN resp.body # {} /\ resp.body \subseteq testResults
                ELSE client'.pc = "loaded"
       /\ (client.pc # "propagating" /\ client'.pc = "propagating")
          => /\ client.pc \in {"posting", "putting"}
             /\ client.pc = "posting" => resp.status = 201
       /\ (req = NoReq /\ req'.op = "update_progress" /\ req'.origin = "client")
          => client.pc = "propagating"]_vars

\* C18 witness: the client's POST failed, the widget is open again and no
\* Progress row of the client's user is done.
C18_Witness ==
    /\ resp.op = "create_test_result"
    /\ resp.origin = "client"
    /\ resp.status >= 400
    /\ client.pc = "loaded"
    /\ client.body.passed
    /\ ~ \E p \in progress : p.user_id = ClientUser /\ p.status = "done"

\* C19: there is at most one Progress row per (user_id, article_id) pair.
C19_OneProgressRowPerPair ==
    \A u \in Users : \A a \in ArticleIds :
        Cardinality({p \in progress : p.user_id = u /\ p.article_id = a}) <= 1

\* C19 witness: the row of the viewed article was created by another request
\* between the main page's GET /progress/ and its POST /progress/, and the
\* POST was refused.
C19_Witness ==
    /\ resp.op = "create_progress"
    /\ resp.origin = "viewer"
    /\ resp.status = 500
    /\ \E p \in progress : p.user_id = ClientUser /\ p.status = "done"

\* C20: GET /tests/full/{test_id} is answered 404 when no test has that id;
\* otherwise it returns exactly the questions whose test_id is that id, each
\* with exactly the options whose question_id is the question's id.
C20_FullTestAssembly ==
    [][Handled("get_test_full")
       => IF \A t \in tests : t.id # req.test_id
          THEN resp'.status = 404
          ELSE /\ resp'.status = 200
               /\ {fq.id : fq \in resp'.body}
                    = {q.id : q \in {x \in questions : x.test_id = req.test_id}}
               /\ \A fq \in resp'.body :
                     /\ \E q \in questions :
                           q.id = fq.id /\ q.weight = fq.weight
                     /\ fq.options
                          = {[id |-> o.id, is_correct |-> o.is_correct] :
                               o \in {x \in options : x.question_id = fq.id}}
               /\ Cardinality(resp'.body)
                    = Cardinality({x \in questions : x.test_id = req.test_id})]_vars

\* C20 witness: the full test 1 was returned with its two questions, one of
\* them with two options, while a question of another test exists.
C20_Witness ==
    /\ resp.op = "get_test_full"
    /\ resp.status = 200
    /\ Cardinality(resp.body) = 2
    /\ \E fq \in resp.body : Cardinality(fq.options) = 2
    /\ \E q \in questions : q.id \notin {fq.id : fq \in resp.body}

\* The lists a set of rows can be returned as.
Listings(S) ==
    {f \in [1..Cardinality(S) -> S] :
        \A i, j \in 1..Cardinality(S) : f[i] = f[j] => i = j}

\* The ways the loaded questions can be listed: the questions in any order,
\* the options of each in any order.
QuestionLists(qs) ==
    LET ids == {q.id : q \in qs}
        orders == {f \in [ids -> UNION {Listings(q.options) : q \in qs}] :
                      \A q \in qs : f[q.id] \in Listings(q.options)}
    IN  UNION {{[i \in 1..Cardinality(qs) |->
                    [id |-> ql[i].id, weight |-> ql[i].weight,
                     options |-> f[ql[i].id]]] : f \in orders}
               : ql \in Listings(qs)}

\* C21: the grade of a submission does not depend on the order of the
\* lists: whatever the order of the loaded questions, of the options of
\* each, and of the answers, grading the content the client holds with the
\* answers it posts gives the score and the passed flag of the posted body.
C21_GradingDeterministic ==
    client.pc = "posting" =>
        \A ql \in QuestionLists(client.questions) :
            \A al \in Listings({client.body.answers[i] :
                                    i \in 1..Len(client.body.answers)}) :
                /\ ScoreLoop(ql, al) = client.body.score
                /\ (ScoreLoop(ql, al) >= client.max_score) = client.body.passed

\* A body was graded from two questions, one of them with two options, and
\* earned part of the points only.
C21_Witness ==
    /\ client.pc = "posting"
    /\ Cardinality(client.questions) = 2
    /\ \E q \in client.questions : Cardinality(q.options) = 2
    /\ client.body.score > 0
    /\ ~client.body.passed

\* C22: GET /test-results/ returns only the results that match every filter
\* it was given: with both user_id and test_id, every returned result has
\* that user_id and that test_id.
C22_ListMatchesEveryFilter ==
    [][(/\ Handled("list_test_results")
        /\ resp'.status = 200
        /\ req.user_id # None
        /\ req.test_id # None)
       => \A r \in resp'.body :
              r.user_id = req.user_id /\ r.test_id = req.test_id]_vars

C24_OneAnswerPerQuestion ==
    \A a1, a2 \in testAnswers :
        (a1.test_result_id = a2.test_result_id
         /\ a1.question_id = a2.question_id) => a1 = a2

\* C25: the questions are checked before the options: a permitted submission
\* for an existing test in which some answer names a question that is not in
\* the test is answered 404, even when an earlier answer selects an option
\* that does not belong to its question; 400 is answered only when every
\* question_id of the submission is in the test.
C25_QuestionsCheckedBeforeOptions ==
    [][(/\ Handled("create_test_result")
        /\ SubmitAllowed(req.actor, req.payload.user_id)
        /\ GetTestById(req.payload.test_id) # {})
       => LET ids == valid_question_ids(_get_test_full(req.payload.test_id))
              unknown == \E i \in 1..Len(req.payload.answers) :
                             req.payload.answers[i][1] \notin ids
          IN  /\ unknown => resp'.status = 404
              /\ resp'.status = 400 => ~unknown]_vars

\* Whether the handler's loop refuses the i-th answer of the list.
AnswerRefused(test_id, answers, i) ==
    LET full_test == _get_test_full(test_id)
    IN  \/ answers[i][1] \notin valid_question_ids(full_test)
        \/ answers[i][2] \notin options_by_question(full_test, answers[i][1])

C27_PropagationStepsIndependent ==
    [][(Handled("update_progress") /\ req.origin = "client")
       => /\ testResults' = testResults
          /\ testAnswers' = testAnswers
          /\ \A p \in progress : p.status = "done" => p \in progress'
          /\ resp'.status >= 400 => progress' = progress
          /\ (\E p \in progress : /\ p.user_id = req.user_id
                                   /\ p.article_id = req.article_id
                                   /\ p.status = "done")
             => (resp'.status = 200 /\ progress' = progress)]_vars

\* The propagation of a passed result failed at article 2, which has no row:
\* the row of article 1 is done and the result is stored.
C27_Witness ==
    /\ resp.op = "update_progress"
    /\ resp.origin = "client"
    /\ resp.status = 404
    /\ client.pc = "putting"
    /\ client.todo = <<2>>
    /\ [user_id |-> ClientUser, article_id |-> 1, status |-> "done"] \in progress
    /\ GetProgressByUserAndArticle(ClientUser, 2) = {}
    /\ \E r \in testResults : r.user_id = ClientUser /\ r.passed

\* C28: a non-admin cannot mark an article done for themselves without a
\* passed result: whenever a request of a non-admin actor about their own
\* progress makes a row done, the actor has a stored TestResult with passed
\* set for a test of the article's category.
C28_DoneNeedsPassedResult ==
    [][(/\ Handled("create_progress") \/ Handled("update_progress")
        /\ role_name(req.actor) # "admin"
        /\ req.user_id = req.actor)
       => \A p \in progress' \ progress :
              (p.user_id = req.actor /\ p.status = "done")
              => \E r \in testResults :
                     /\ r.user_id = p.user_id
                     /\ r.passed
                     /\ CategoryOfTest(r.test_id)
                            = CategoryOfArticle(p.article_id)]_vars

\* C29: viewing an article creates its Progress row only when the user has
\* none: a view goes on to create the row only if no row exists for (user,
\* article) when the article is shown, and the request of a view changes no
\* existing row.
C29_ViewCreatesOnlyWhenAbsent ==
    [][/\ (viewing = None /\ viewing' # None)
           => GetProgressByUserAndArticle(ClientUser, viewing') = {}
       /\ (Handled("create_progress") /\ req.origin = "viewer")
           => progress \subseteq progress']_vars

\* Whether the list of answers has exactly one answer for every question id
\* of the set and no other answer.
OneAnswerPerQuestionOf(ids, answers) ==
    /\ Len(answers) = Cardinality(ids)
    /\ {answers[i][1] : i \in 1..Len(answers)} = ids

\* C30: every recorded submission answers every question of its test exactly
\* once: the body the client posts has one answer per loaded question, and a
\* submission the server answers 201 has one answer per question of the test.
C30_EveryQuestionAnsweredOnce ==
    [][/\ (req = NoReq /\ req'.op = "create_test_result"
                       /\ req'.origin = "client")
           => OneAnswerPerQuestionOf({q.id : q \in client.questions},
                                     req'.payload.answers)
       /\ (Handled("create_test_result") /\ resp'.status = 201)
           => OneAnswerPerQuestionOf(
                  valid_question_ids(_get_test_full(req.payload.test_id)),
                  req.payload.answers)]_vars
====
